---- MODULE Spec2Model ----
(***************************************************************************)
(* Model of MongoDb.execute (src/nodes/MongoDb/MongoDb.node.ts): one       *)
(* invocation of the node, from acquiring the client to returning or       *)
(* throwing.  The invocation is cut at its await points.  The MongoDB      *)
(* driver and the host are the environment: every driver call may succeed  *)
(* or fail, and every parameter the code reads is drawn from a small set   *)
(* at the place where the code reads it.                                   *)
(***************************************************************************)
EXTENDS Integers, Sequences, FiniteSets, TLC

\* ------------------------------------------------------------------ bounds
MaxItems == 2

\* ------------------------------------------------------------------ values
\* A JavaScript value is a record [t, v]: t is its type, v its text.
Str(s) == [t |-> "str", v |-> s]
Oid(h) == [t |-> "oid", v |-> h]
Num(n) == [t |-> "num", v |-> n]
Undef == [t |-> "undef", v |-> ""]
\* the object {error: m}
ErrObj(m) == [t |-> "obj", v |-> m]

\* Strings that are 24 hexadecimal characters.  "g1".. are the ones the
\* database generates, in order of position.
GenHex == <<"g1", "g2", "g3", "g4">>
HexStrings == {"h1", "h2"} \cup {GenHex[n] : n \in DOMAIN GenHex}

\* A document is a function from a finite set of keys to values.
EmptyDoc == [k \in {} |-> Undef]
Get(doc, key) == IF key \in DOMAIN doc THEN doc[key] ELSE Undef
SetKey(doc, key, val) == [k \in DOMAIN doc \cup {key} |-> IF k = key THEN val ELSE doc[k]]
DeleteKey(doc, key) == [k \in DOMAIN doc \ {key} |-> doc[k]]

\* new ObjectId(x) of the mongodb package: a 24-hex string is parsed, an
\* ObjectId is copied, undefined yields a fresh identifier, any other string
\* throws.
ObjectIdThrows(val) == val.t = "str" /\ val.v \notin HexStrings
NewObjectId(val) ==
  CASE val.t = "str" -> Oid(val.v)
    [] val.t = "oid" -> val
    [] OTHER -> Oid("fresh")

\* ------------------------------------------------------------------ errors
ConnectError == "connect failed"
ParseError == "parse error"
OidError == "invalid ObjectId"
DbError == "database error"
UnsupportedMsg(op) == "The operation \"" \o op \o "\" is not supported!"

\* ------------------------------------------------------------------ inputs
\* The records of the input items (the json of each item).
InputRecords ==
  {[k \in S |-> IF k = "_id" THEN idv ELSE Str("a")] :
     S \in SUBSET {"_id", "id"}, idv \in {Str("h1"), Str("bad")}}
ItemLists == UNION {[1..n -> InputRecords] : n \in 0..MaxItems}

KnownOperations ==
  {"aggregate", "delete", "find", "findOneAndReplace", "findOneAndUpdate", "insert", "update"}
Operations == KnownOperations \cup {"foo"}

\* The raw 'fields' and 'options.oidFields' parameters, already cut at the
\* commas: an entry may be blank.
FieldParams == {<<>>, <<"">>, <<"_id">>, <<"id", "">>, <<"_id", "id">>}
OidFieldParams == {<<>>, <<"_id">>}
UpdateKeys == {"_id", "id"}

\* The 'query' parameter and what EJSON.parse makes of it.
QueryStrings ==
  {"{", "{}", "[]", "{_id:'h1'}", "{_id:'bad'}", "{_id:''}", "{_id:{$oid:'h1'}}",
   "{id:'h1'}", "{_id:'h2',id:'h1'}"}
Parsed(isArray, map) == [ok |-> TRUE, isArray |-> isArray, map |-> map]
EJSONparse(s) ==
  CASE s = "{}" -> Parsed(FALSE, EmptyDoc)
    [] s = "[]" -> Parsed(TRUE, EmptyDoc)
    [] s = "{_id:'h1'}" -> Parsed(FALSE, [k \in {"_id"} |-> Str("h1")])
    [] s = "{_id:'bad'}" -> Parsed(FALSE, [k \in {"_id"} |-> Str("bad")])
    [] s = "{_id:''}" -> Parsed(FALSE, [k \in {"_id"} |-> Str("")])
    [] s = "{_id:{$oid:'h1'}}" -> Parsed(FALSE, [k \in {"_id"} |-> Oid("h1")])
    [] s = "{id:'h1'}" -> Parsed(FALSE, [k \in {"id"} |-> Str("h1")])
    [] s = "{_id:'h2',id:'h1'}" ->
         Parsed(FALSE, [k \in {"_id", "id"} |-> IF k = "_id" THEN Str("h2") ELSE Str("h1")])
    [] OTHER -> [ok |-> FALSE, isArray |-> FALSE, map |-> EmptyDoc]

\* options.sort of find: empty, an empty mapping, a mapping, malformed.
SortStrings == {"", "{}", "{id:1}", "{"}
SortThrows(s) == s = "{"
SortApplies(s) == s = "{id:1}"

\* What the collection may answer to find and aggregate.
DbResults ==
  {<<>>,
   <<[k \in {"_id", "status"} |-> IF k = "_id" THEN Oid("h1") ELSE Str("active")]>>,
   <<[k \in {"_id", "status"} |-> IF k = "_id" THEN Oid("h1") ELSE Str("active")],
     [k \in {"_id", "status"} |-> IF k = "_id" THEN Oid("h2") ELSE Str("active")]>>}
DeletedCounts == {"0", "1"}

\* --------------------------------------------------- GenericFunctions
\* prepareFields: the entries of the list that are not blank.
NotBlank(f) == f # ""
prepareFields(param) == {param[n] : n \in {m \in DOMAIN param : NotBlank(param[m])}}

\* prepareItems, one record: the selected keys present in the record (all
\* keys when the selector is empty), then the identifier fields coerced.
\* Date fields and dot notation leave the top-level key set and the
\* identifiers alone and are not part of the model.
Candidates(rec, fields) == IF fields = {} THEN DOMAIN rec ELSE fields \cap DOMAIN rec
prepareItem(rec, fields, oidFlds) ==
  [k \in Candidates(rec, fields) |-> IF k \in oidFlds THEN NewObjectId(rec[k]) ELSE rec[k]]
prepareItemThrows(rec, fields, oidFlds) ==
  \E k \in Candidates(rec, fields) \cap oidFlds : ObjectIdThrows(rec[k])
prepareItems(its, fields, oidFlds) ==
  [n \in DOMAIN its |-> prepareItem(its[n], fields, oidFlds)]
prepareItemsThrows(its, fields, oidFlds) ==
  \E n \in DOMAIN its : prepareItemThrows(its[n], fields, oidFlds)

\* stringifyObjectIDs: every identifier becomes its string.
StringifyDoc(doc) == [k \in DOMAIN doc |-> IF doc[k].t = "oid" THEN Str(doc[k].v) ELSE doc[k]]
stringifyObjectIDs(data) == [n \in DOMAIN data |-> StringifyDoc(data[n])]

\* ------------------------------------------------- pieces of execute
\* find and aggregate: a non-empty string under the top-level _id of the
\* parsed query is replaced by new ObjectId of it.
IsTruthyString(val) == val.t = "str" /\ val.v # ""
CoerceQueryIdThrows(q) ==
  /\ ~q.isArray
  /\ IsTruthyString(Get(q.map, "_id"))
  /\ ObjectIdThrows(Get(q.map, "_id"))
CoerceQueryId(q) ==
  IF ~q.isArray /\ IsTruthyString(Get(q.map, "_id"))
  THEN [q EXCEPT !.map = SetKey(q.map, "_id", NewObjectId(Get(q.map, "_id")))]
  ELSE q

\* delete hands the parsed query to deleteMany as it is.
DeleteQuery(q) == q

\* The per-item operations: the filter of one item, the item as it is sent,
\* and the item after a failure was caught.
BuildFilterThrows(item, key) == key = "_id" /\ ObjectIdThrows(Get(item, key))
BuildFilter(item, key) ==
  IF key = "_id"
  THEN SetKey(EmptyDoc, key, NewObjectId(Get(item, key)))
  ELSE SetKey(EmptyDoc, key, Get(item, key))
\* (StripKeyKept: the body with `delete item._id` left out.)
StripKeyKept(item, key) == item
StripKey(item, key) == IF key = "_id" THEN DeleteKey(item, "_id") ELSE item
Annotate(item, msg) == SetKey(item, "json", ErrObj(msg))

\* catch blocks: the error is swallowed when continueOnFail() and rethrown
\* otherwise.
\* (SwallowsAlways: a catch block that never rethrows.)
SwallowsAlways(cof) == TRUE
Swallows(cof) == cof

\* The response of a whole-batch operation whose try block failed.
\* (BatchErrorNoMessage: the record without the message.)
BatchErrorNoMessage(msg) == <<EmptyDoc>>
BatchError(msg) == <<[k \in {"error"} |-> Str(msg)]>>

\* insert: what insertMany reports for the document at position n, and the
\* merge of the reported identifiers onto the inserted items.
InsertedId(doc, n) ==
  IF "_id" \in DOMAIN doc /\ doc["_id"].t # "undef" THEN doc["_id"] ELSE Oid(GenHex[n])
\* (MergeInsertedIdsFirst: every item given the first identifier.)
MergeInsertedIdsFirst(insertItems, ids) ==
  [n \in DOMAIN ids |-> SetKey(insertItems[n], "id", ids[1])]
MergeInsertedIds(insertItems, ids) ==
  [n \in DOMAIN ids |-> SetKey(insertItems[n], "id", ids[n])]

\* A call of a driver verb.  idx is the position of the item (0 for a call
\* about the whole batch), ok whether the driver answered without an error.
Call(verb, idx, filter, isArray, docs, set, upsert, mods, ok) ==
  [verb |-> verb, idx |-> idx, filter |-> filter, isArray |-> isArray, docs |-> docs,
   set |-> set, upsert |-> upsert, mods |-> mods, ok |-> ok]

\* insert: all the prepared items go to the database in one insertMany.
\* (InsertCallsPerItem: one call for each item instead.)
InsertCallsPerItem(insertItems, ok) ==
  [n \in DOMAIN insertItems |->
     Call("insertMany", n, EmptyDoc, FALSE, <<insertItems[n]>>, FALSE, FALSE, {}, ok)]
InsertCalls(insertItems, ok) ==
  <<Call("insertMany", 0, EmptyDoc, FALSE, insertItems, FALSE, FALSE, {}, ok)>>

\* ------------------------------------------------------------------ state
VARIABLES
  pc,            \* where the invocation stands
  continueOnFail, \* this.continueOnFail()
  operation,     \* the 'operation' parameter, read once
  items,         \* this.getInputData()
  opened,        \* sessions acquired by connectMongoClient
  closed,        \* calls of client.close()
  queryString,   \* the 'query' parameter as read
  updateKey,     \* the 'updateKey' parameter
  upsert,        \* the 'upsert' parameter
  prepared,      \* what prepareItems returned
  updateItems,   \* the prepared items, as the loop has changed them
  i,             \* position of the loop over updateItems
  caught,        \* positions whose iteration ended in the catch block
  calls,         \* the driver verbs called so far, in order
  insertedIds,   \* what insertMany reported
  responseData,
  output,        \* the items returned
  error          \* the error thrown out of execute, "" if none

vars ==
  <<pc, continueOnFail, operation, items, opened, closed, queryString, updateKey, upsert,
    prepared, updateItems, i, caught, calls, insertedIds, responseData, output, error>>

Init ==
  /\ pc = "start"
  /\ continueOnFail \in BOOLEAN
  /\ operation = ""
  /\ items = <<>>
  /\ opened = 0
  /\ closed = 0
  /\ queryString = ""
  /\ updateKey = ""
  /\ upsert = FALSE
  /\ prepared = <<>>
  /\ updateItems = <<>>
  /\ i = 0
  /\ caught = {}
  /\ calls = <<>>
  /\ insertedIds = <<>>
  /\ responseData = <<>>
  /\ output = <<>>
  /\ error = ""

\* An error leaves execute: nothing after the throw runs.
Throw(msg) ==
  /\ pc' = "failed"
  /\ error' = msg

\* The catch block of a whole-batch operation.
CatchBatch(msg) ==
  IF Swallows(continueOnFail)
  THEN /\ responseData' = BatchError(msg)
       /\ pc' = "close"
       /\ error' = error
  ELSE /\ Throw(msg)
       /\ responseData' = responseData

\* connectMongoClient, then the reading of the items and of the operation.
Connect ==
  /\ pc = "start"
  /\ \E ok \in BOOLEAN :
       IF ok
       THEN /\ opened' = opened + 1
            /\ \E its \in ItemLists, op \in Operations :
                 /\ items' = its
                 /\ operation' = op
            /\ pc' = "dispatch"
            /\ error' = error
       ELSE /\ Throw(ConnectError)
            /\ UNCHANGED <<opened, items, operation>>
  /\ UNCHANGED <<continueOnFail, closed, queryString, updateKey, upsert, prepared,
                 updateItems, i, caught, calls, insertedIds, responseData, output>>

\* operation === 'aggregate'
Aggregate ==
  /\ pc = "dispatch"
  /\ operation = "aggregate"
  /\ \E qs \in QueryStrings, ok \in BOOLEAN, res \in DbResults :
       /\ queryString' = qs
       /\ LET q == EJSONparse(qs) IN
            IF ~q.ok THEN CatchBatch(ParseError) /\ calls' = calls
            ELSE IF CoerceQueryIdThrows(q) THEN CatchBatch(OidError) /\ calls' = calls
            ELSE /\ calls' = Append(calls, Call("aggregate", 0, CoerceQueryId(q).map, q.isArray,
                                                <<>>, FALSE, FALSE, {}, ok))
                 /\ IF ok
                    THEN /\ responseData' = res
                         /\ pc' = "close"
                         /\ error' = error
                    ELSE CatchBatch(DbError)
  /\ UNCHANGED <<continueOnFail, operation, items, opened, closed, updateKey, upsert, prepared,
                 updateItems, i, caught, insertedIds, output>>

\* operation === 'delete'
Delete ==
  /\ pc = "dispatch"
  /\ operation = "delete"
  /\ \E qs \in QueryStrings, ok \in BOOLEAN, n \in DeletedCounts :
       /\ queryString' = qs
       /\ LET q == EJSONparse(qs) IN
            IF ~q.ok THEN CatchBatch(ParseError) /\ calls' = calls
            ELSE /\ calls' = Append(calls, Call("deleteMany", 0, DeleteQuery(q).map, q.isArray,
                                                <<>>, FALSE, FALSE, {}, ok))
                 /\ IF ok
                    THEN /\ responseData' = <<[k \in {"deletedCount"} |-> Num(n)]>>
                         /\ pc' = "close"
                         /\ error' = error
                    ELSE CatchBatch(DbError)
  /\ UNCHANGED <<continueOnFail, operation, items, opened, closed, updateKey, upsert, prepared,
                 updateItems, i, caught, insertedIds, output>>

\* operation === 'find'.  The cursor is built without talking to the
\* database; toArray is the call.
Find ==
  /\ pc = "dispatch"
  /\ operation = "find"
  /\ \E qs \in QueryStrings, sort \in SortStrings, skip \in 0..1, limit \in 0..1,
        ok \in BOOLEAN, res \in DbResults :
       /\ queryString' = qs
       /\ LET q == EJSONparse(qs)
              mods == (IF skip > 0 THEN {"skip"} ELSE {}) \cup
                      (IF limit > 0 THEN {"limit"} ELSE {}) \cup
                      (IF SortApplies(sort) THEN {"sort"} ELSE {})
          IN
            IF ~q.ok THEN CatchBatch(ParseError) /\ calls' = calls
            ELSE IF CoerceQueryIdThrows(q) THEN CatchBatch(OidError) /\ calls' = calls
            ELSE IF SortThrows(sort) THEN CatchBatch(ParseError) /\ calls' = calls
            ELSE /\ calls' = Append(calls, Call("find", 0, CoerceQueryId(q).map, q.isArray,
                                                <<>>, FALSE, FALSE, mods, ok))
                 /\ IF ok
                    THEN /\ responseData' = res
                         /\ pc' = "close"
                         /\ error' = error
                    ELSE CatchBatch(DbError)
  /\ UNCHANGED <<continueOnFail, operation, items, opened, closed, updateKey, upsert, prepared,
                 updateItems, i, caught, insertedIds, output>>

\* operation === 'insert'
Insert ==
  /\ pc = "dispatch"
  /\ operation = "insert"
  /\ \E fp \in FieldParams, op \in OidFieldParams, ok \in BOOLEAN :
       LET fields == prepareFields(fp)
           oidFlds == prepareFields(op)
           insertItems == prepareItems(items, fields, oidFlds)
           ids == [n \in DOMAIN insertItems |-> InsertedId(insertItems[n], n)]
       IN
         IF prepareItemsThrows(items, fields, oidFlds)
         THEN /\ CatchBatch(OidError)
              /\ UNCHANGED <<calls, prepared, insertedIds>>
         ELSE /\ prepared' = insertItems
              /\ calls' = calls \o InsertCalls(insertItems, ok)
              /\ IF ok
                 THEN /\ insertedIds' = ids
                      /\ responseData' = responseData \o MergeInsertedIds(insertItems, ids)
                      /\ pc' = "close"
                      /\ error' = error
                 ELSE /\ CatchBatch(DbError)
                      /\ insertedIds' = insertedIds
  /\ UNCHANGED <<continueOnFail, operation, items, opened, closed, queryString, updateKey,
                 upsert, updateItems, i, caught, output>>

\* The head of a per-item operation: the parameters are read and the items
\* prepared, outside of any try block.
PerItemOperations == {"findOneAndReplace", "findOneAndUpdate", "update"}
PrepareUpdateItems(op) ==
  /\ pc = "dispatch"
  /\ operation = op
  /\ \E fp \in FieldParams, oidp \in OidFieldParams, key \in UpdateKeys, ups \in BOOLEAN :
       LET fields == prepareFields(fp)
           oidFlds == prepareFields(oidp)
       IN
         /\ updateKey' = key
         /\ upsert' = ups
         /\ IF prepareItemsThrows(items, fields, oidFlds)
            THEN /\ Throw(OidError)
                 /\ UNCHANGED <<prepared, updateItems, i>>
            ELSE /\ prepared' = prepareItems(items, fields, oidFlds)
                 /\ updateItems' = prepareItems(items, fields, oidFlds)
                 /\ i' = 1
                 /\ pc' = "loop"
                 /\ error' = error
  /\ UNCHANGED <<continueOnFail, operation, items, opened, closed, queryString, caught, calls,
                 insertedIds, responseData, output>>

\* The catch block of a per-item operation, for the item at position i.
\* (CatchItemBreak: the same with `break` in the place of `continue`.)
CatchItemBreak(item, msg) ==
  IF Swallows(continueOnFail)
  THEN /\ updateItems' = [updateItems EXCEPT ![i] = Annotate(item, msg)]
       /\ i' = Len(updateItems) + 1
       /\ pc' = pc
       /\ error' = error
  ELSE /\ Throw(msg)
       /\ UNCHANGED <<updateItems, i>>

CatchItem(item, msg) ==
  IF Swallows(continueOnFail)
  THEN /\ updateItems' = [updateItems EXCEPT ![i] = Annotate(item, msg)]
       /\ i' = i + 1
       /\ pc' = pc
       /\ error' = error
  ELSE /\ Throw(msg)
       /\ UNCHANGED <<updateItems, i>>

\* One iteration of the loop over updateItems: the try block and, when it
\* fails, the catch block.  set tells whether the body is {$set: item}.
PerItemStep(op, verb, set) ==
  /\ pc = "loop"
  /\ operation = op
  /\ i <= Len(updateItems)
  /\ \E ok \in BOOLEAN :
       LET item == updateItems[i]
           sent == StripKey(item, updateKey)
       IN
         IF BuildFilterThrows(item, updateKey)
         THEN /\ CatchItem(item, OidError)
              /\ caught' = caught \cup {i}
              /\ calls' = calls
         ELSE /\ calls' = Append(calls, Call(verb, i, BuildFilter(item, updateKey), FALSE,
                                             <<sent>>, set, upsert, {}, ok))
              /\ IF ok
                 THEN /\ updateItems' = [updateItems EXCEPT ![i] = sent]
                      /\ i' = i + 1
                      /\ caught' = caught
                      /\ UNCHANGED <<pc, error>>
                 ELSE /\ CatchItem(sent, DbError)
                      /\ caught' = caught \cup {i}
  /\ UNCHANGED <<continueOnFail, operation, items, opened, closed, queryString, updateKey,
                 upsert, prepared, insertedIds, responseData, output>>

FindOneAndReplaceItem == PerItemStep("findOneAndReplace", "findOneAndReplace", FALSE)
FindOneAndUpdateItem == PerItemStep("findOneAndUpdate", "findOneAndUpdate", TRUE)
UpdateItem == PerItemStep("update", "updateOne", TRUE)

\* responseData = updateItems, after the loop.
LoopDone ==
  /\ pc = "loop"
  /\ i > Len(updateItems)
  /\ responseData' = updateItems
  /\ pc' = "close"
  /\ UNCHANGED <<continueOnFail, operation, items, opened, closed, queryString, updateKey,
                 upsert, prepared, updateItems, i, caught, calls, insertedIds, output, error>>

\* The final else: no known operation.
\* (UnsupportedIgnored: the chain without its final else.)
UnsupportedIgnored ==
  /\ pc = "dispatch"
  /\ operation \notin KnownOperations
  /\ pc' = "close"
  /\ UNCHANGED <<continueOnFail, operation, items, opened, closed, queryString, updateKey,
                 upsert, prepared, updateItems, i, caught, calls, insertedIds, responseData,
                 output, error>>

Unsupported ==
  /\ pc = "dispatch"
  /\ operation \notin KnownOperations
  /\ IF continueOnFail
     THEN /\ responseData' = <<[k \in {"error"} |-> Str(UnsupportedMsg(operation))]>>
          /\ pc' = "close"
          /\ error' = error
     ELSE /\ Throw(UnsupportedMsg(operation))
          /\ responseData' = responseData
  /\ UNCHANGED <<continueOnFail, operation, items, opened, closed, queryString, updateKey,
                 upsert, prepared, updateItems, i, caught, calls, insertedIds, output>>

\* client.close(), stringifyObjectIDs and the return.  returnJsonArray and
\* constructExecutionMetaData wrap each record without changing their number
\* or order.
CloseAndReturn ==
  /\ pc = "close"
  /\ closed' = closed + 1
  /\ output' = stringifyObjectIDs(responseData)
  /\ pc' = "done"
  /\ UNCHANGED <<continueOnFail, operation, items, opened, queryString, updateKey, upsert,
                 prepared, updateItems, i, caught, calls, insertedIds, responseData, error>>

Next ==
  \/ Connect
  \/ Aggregate
  \/ Delete
  \/ Find
  \/ Insert
  \/ PrepareUpdateItems("findOneAndReplace")
  \/ PrepareUpdateItems("findOneAndUpdate")
  \/ PrepareUpdateItems("update")
  \/ FindOneAndReplaceItem
  \/ FindOneAndUpdateItem
  \/ UpdateItem
  \/ LoopDone
  \/ Unsupported
  \/ CloseAndReturn

Spec == Init /\ [][Next]_vars

\* ------------------------------------------------------------ properties
WholeBatchOperations == {"aggregate", "delete", "find", "insert"}
Finished == pc \in {"done", "failed"}
Dispatched == opened = 1 /\ pc \in {"loop", "close", "done", "failed"}
VerbOf(op) ==
  CASE op = "aggregate" -> "aggregate"
    [] op = "delete" -> "deleteMany"
    [] op = "find" -> "find"
    [] op = "insert" -> "insertMany"
    [] op = "update" -> "updateOne"
    [] OTHER -> op
ErrorRecord(msg) == [k \in {"error"} |-> Str(msg)]
\* A step of a whole-batch operation failed: no call was reached, or the call
\* was answered with an error.
StepFailed == calls = <<>> \/ ~calls[Len(calls)].ok
FailureMessages == IF calls = <<>> THEN {ParseError, OidError} ELSE {DbError}

\* C1: an invocation that acquired a session has closed it exactly once when
\* it finishes, whether it returns or throws.
C1_SessionClosedOnEveryExit ==
  (Finished /\ opened = 1) => closed = 1

\* C2: update with continue-on-failure: the output has one record per input
\* item, in input order; an item whose iteration failed carries the error
\* annotation, every other item had its updateOne call answered, and a
\* failure does not keep the later items from being called.
C2_BatchErrorIsolation ==
  (pc = "done" /\ operation = "update" /\ continueOnFail) =>
    /\ Len(output) = Len(items)
    /\ \A n \in 1..Len(items) :
         IF n \in caught
         THEN /\ "json" \in DOMAIN output[n]
              /\ output[n]["json"] \in {ErrObj(DbError), ErrObj(OidError)}
              /\ \A k \in DOMAIN output[n] \ {"json"} :
                   k \in DOMAIN prepared[n] /\ output[n][k] = StringifyDoc(prepared[n])[k]
         ELSE /\ "json" \notin DOMAIN output[n]
              /\ \E c \in DOMAIN calls :
                   calls[c].idx = n /\ calls[c].verb = "updateOne" /\ calls[c].ok
              /\ DOMAIN output[n] = DOMAIN prepared[n] \ (IF updateKey = "_id" THEN {"_id"} ELSE {})
              /\ \A k \in DOMAIN output[n] : output[n][k] = StringifyDoc(prepared[n])[k]
C2_Witness ==
  /\ pc = "done" /\ operation = "update" /\ continueOnFail
  /\ Len(items) = 2 /\ caught = {1}
  /\ \E c \in DOMAIN calls : calls[c].idx = 2 /\ calls[c].ok

\* C3: with the update key "_id", no body sent by a per-item operation holds
\* the key "_id", and the filter of the same call is exactly {_id: identifier}
\* built from the item's own _id.
C3_UpdateBodyExclusion ==
  \A c \in DOMAIN calls :
    (calls[c].verb \in {"updateOne", "findOneAndUpdate", "findOneAndReplace"}
       /\ updateKey = "_id") =>
      /\ \A d \in DOMAIN calls[c].docs : "_id" \notin DOMAIN calls[c].docs[d]
      /\ DOMAIN calls[c].filter = {"_id"}
      /\ calls[c].filter["_id"].t = "oid"
      /\ LET own == Get(prepared[calls[c].idx], "_id") IN
           own.t \in {"str", "oid"} => calls[c].filter["_id"].v = own.v
C3_Witness ==
  /\ updateKey = "_id"
  /\ Len(calls) = 2
  /\ calls[2].verb = "findOneAndReplace"
  /\ "_id" \in DOMAIN prepared[2]
  /\ "id" \in DOMAIN calls[2].docs[1]

\* C4: an operation name that is none of the known ones calls no database
\* verb; without continue-on-failure the invocation throws the
\* operation-not-supported error, with it the output is the one error record.
C4_UnsupportedOperation ==
  (Dispatched /\ operation \notin KnownOperations) =>
    /\ calls = <<>>
    /\ pc # "loop"
    /\ ~continueOnFail => (pc = "failed" /\ error = UnsupportedMsg(operation) /\ output = <<>>)
    /\ continueOnFail => (pc # "failed" /\ responseData = <<ErrorRecord(UnsupportedMsg(operation))>>)
    /\ (continueOnFail /\ pc = "done") => output = <<ErrorRecord(UnsupportedMsg(operation))>>
C4_Witness ==
  /\ pc = "failed" /\ operation = "foo" /\ ~continueOnFail /\ Len(items) = 2 /\ opened = 1

\* C5: with continue-on-failure, no error of a per-item operation leaves
\* execute.
C5_NoPropagationWhenContinuing ==
  (pc = "failed" /\ operation \in PerItemOperations) => ~continueOnFail

\* C6: a whole-batch operation with a failed step answers with exactly one
\* record carrying the error message under continue-on-failure, and throws
\* with no output otherwise.
C6_WholeBatchFailure ==
  (Dispatched /\ operation \in WholeBatchOperations /\ StepFailed) =>
    IF continueOnFail
    THEN /\ pc # "failed"
         /\ \E m \in FailureMessages :
              /\ responseData = <<ErrorRecord(m)>>
              /\ pc = "done" => output = <<ErrorRecord(m)>>
    ELSE /\ pc = "failed"
         /\ error \in FailureMessages
         /\ output = <<>>
C6_Witness ==
  /\ pc = "done" /\ operation = "insert" /\ continueOnFail
  /\ Len(items) = 2 /\ Len(calls) = 1 /\ ~calls[1].ok

\* C7: find, aggregate and delete hand a string found under the top-level
\* _id of the parsed query to the database as an identifier, and every other
\* key as parsed.  (Stated for the non-empty strings: new ObjectId accepts no
\* empty string, and find and aggregate pass one through as it is.)
C7_QueryIdCoerced ==
  \A c \in DOMAIN calls :
    LET q == EJSONparse(queryString).map IN
      calls[c].verb \in {"find", "aggregate", "deleteMany"} =>
        /\ DOMAIN calls[c].filter = DOMAIN q
        /\ \A k \in DOMAIN q \ {"_id"} : calls[c].filter[k] = q[k]
        /\ IsTruthyString(Get(q, "_id")) => calls[c].filter["_id"].t = "oid"

\* C8: a successful insert answers one record per inserted identifier, in
\* input order: the fields of the prepared item at that position and, under
\* id, the identifier reported for that position.
C8_InsertMergeByPosition ==
  (pc = "done" /\ operation = "insert" /\ ~StepFailed) =>
    /\ Len(insertedIds) = Len(items)
    /\ Len(output) = Len(insertedIds)
    /\ \A n \in 1..Len(output) :
         /\ DOMAIN output[n] = DOMAIN prepared[n] \cup {"id"}
         /\ output[n]["id"] = Str(insertedIds[n].v)
         /\ \A k \in DOMAIN prepared[n] \ {"id"} : output[n][k] = StringifyDoc(prepared[n])[k]
C8_Witness ==
  /\ pc = "done" /\ operation = "insert" /\ ~StepFailed
  /\ Len(output) = 2
  /\ insertedIds[1] # insertedIds[2]
  /\ prepared[1] # prepared[2]
  /\ "id" \in DOMAIN prepared[2]

\* C9: a per-item operation calls its verb for the items in input order, at
\* most once per item and never ahead of the loop; without
\* continue-on-failure a failed call is the last call and the invocation
\* throws with no output.
C9_SequentialPerItem ==
  (Dispatched /\ operation \in PerItemOperations) =>
    /\ \A c \in DOMAIN calls :
         /\ calls[c].verb = VerbOf(operation)
         /\ calls[c].idx \in 1..Len(items)
         /\ calls[c].idx < i \/ (pc = "failed" /\ calls[c].idx = i)
         /\ \A b \in DOMAIN calls : b < c => calls[b].idx < calls[c].idx
    /\ ~continueOnFail =>
         /\ \A c \in DOMAIN calls : ~calls[c].ok => (c = Len(calls) /\ pc = "failed")
         /\ caught # {} => pc = "failed"
    /\ pc = "failed" => output = <<>>
C9_Witness ==
  /\ pc = "failed" /\ operation = "findOneAndUpdate" /\ ~continueOnFail
  /\ Len(items) = 2 /\ Len(calls) = 1 /\ ~calls[1].ok

\* C10: insert, find, aggregate and delete call the database once, whatever
\* the number of items (not at all when parsing or preparing failed), and
\* with the verb of the operation only.
C10_OneCallPerBatch ==
  (Dispatched /\ operation \in WholeBatchOperations) =>
    /\ \A c \in DOMAIN calls : calls[c].verb = VerbOf(operation) /\ calls[c].idx = 0
    /\ \/ Len(calls) = 1
       \/ /\ calls = <<>>
          /\ \/ error \in {ParseError, OidError}
             \/ responseData \in {<<ErrorRecord(ParseError)>>, <<ErrorRecord(OidError)>>}
C10_Witness ==
  /\ pc = "done" /\ operation = "insert" /\ Len(items) = 2
  /\ Len(calls) = 1 /\ calls[1].ok /\ Len(calls[1].docs) = 2

====
